---- MODULE Spec2Model ----
(***************************************************************************)
(* Model of FibrousProviderV1                                              *)
(* (meta_aggregation_api/providers/fibrous_v1/fibrous_provider.py).        *)
(*                                                                         *)
(* Every adapter call is stateless, so the state of the model is the last  *)
(* call: which operation ran, its arguments, what the upstream did, and    *)
(* what the caller got back (a value or an exception), together with the   *)
(* number of endpoint resolutions and outbound requests the call made.     *)
(*                                                                         *)
(* Python strings are TLA+ strings; str.lower(), the `in` substring test,  *)
(* str(int), float(str) and str(float) are computed character by           *)
(* character.  JSON values are records [t, s, n]: t is the JSON type, s    *)
(* the text of a string, n the number (1/0 for true/false).                *)
(***************************************************************************)
EXTENDS Integers, Sequences, FiniteSets, TLC

VARIABLES op, args, upstream, result

vars == <<op, args, upstream, result>>

-----------------------------------------------------------------------------
(* Bounds of the model.                                                    *)

\* longest upstream route (number of steps) that is enumerated
MaxRoute == 2

\* most text fragments an upstream error message is built from
MaxFrags == 2

-----------------------------------------------------------------------------
(* Python string primitives.                                               *)

UpperSeq == "ABCDEFGHIJKLMNOPQRSTUVWXYZ"

LowerSeq == "abcdefghijklmnopqrstuvwxyz"

DigitSeq == "0123456789"

CharAt(s, i) == SubSeq(s, i, i)

UpperChars == {CharAt(UpperSeq, i) : i \in 1..Len(UpperSeq)}

\* the lower-case letter of each upper-case letter
LowerOf ==
    [c \in UpperChars |->
        CharAt(LowerSeq, CHOOSE i \in 1..Len(UpperSeq) : CharAt(UpperSeq, i) = c)]

\* str.lower() of one character
LowerChar(c) == IF c \in UpperChars THEN LowerOf[c] ELSE c

RECURSIVE LowerRange(_, _, _)
\* the lowered text of characters i..j of s, computed by halves
LowerRange(s, i, j) ==
    IF i > j THEN ""
    ELSE IF i = j THEN LowerChar(CharAt(s, i))
    ELSE LowerRange(s, i, (i + j) \div 2) \o LowerRange(s, ((i + j) \div 2) + 1, j)

\* str.lower()
Lower(s) == LowerRange(s, 1, Len(s))

\* pat in s  (Python substring test)
Contains(pat, s) ==
    \E i \in 0..(Len(s) - Len(pat)) : SubSeq(s, i + 1, i + Len(pat)) = pat

IsDigit(c) == \E i \in 1..Len(DigitSeq) : CharAt(DigitSeq, i) = c

DigitVal(c) == (CHOOSE i \in 1..Len(DigitSeq) : CharAt(DigitSeq, i) = c) - 1

RECURSIVE IntToStr(_)
\* str(n) for a non-negative int
IntToStr(n) ==
    IF n < 10 THEN CharAt(DigitSeq, n + 1)
    ELSE IntToStr(n \div 10) \o CharAt(DigitSeq, (n % 10) + 1)

\* the decimal digit strings float() accepts among the modelled inputs
IsNumeric(s) == Len(s) > 0 /\ \A i \in 1..Len(s) : IsDigit(CharAt(s, i))

RECURSIVE StrToInt(_)
\* the number float() reads from a digit string
StrToInt(s) ==
    IF Len(s) = 0 THEN 0
    ELSE 10 * StrToInt(SubSeq(s, 1, Len(s) - 1)) + DigitVal(CharAt(s, Len(s)))

RECURSIVE FracDigits(_, _, _)
\* the digits after the decimal point of r/den (r < den), at most k of them
FracDigits(r, den, k) ==
    IF r = 0 \/ k = 0 THEN ""
    ELSE IntToStr((10 * r) \div den) \o FracDigits((10 * r) % den, den, k - 1)

\* str(float(num) / float(den)): repr of the binary64 quotient.  Both
\* operands are below 2^53, so the quotient is the correctly rounded num/den;
\* when num/den has a short terminating expansion repr prints exactly that
\* expansion, and an integral float prints with a trailing ".0".
PyFloatDivStr(num, den) ==
    IntToStr(num \div den) \o "." \o
        (IF num % den = 0 THEN "0" ELSE FracDigits(num % den, den, 15))

-----------------------------------------------------------------------------
(* JSON values.                                                            *)

Absent == [t |-> "absent", s |-> "", n |-> 0]

Null == [t |-> "null", s |-> "", n |-> 0]

Str(x) == [t |-> "str", s |-> x, n |-> 0]

Num(x) == [t |-> "int", s |-> "", n |-> x]

Bool(b) == [t |-> "bool", s |-> "", n |-> IF b THEN 1 ELSE 0]

\* dict.get(key, default) on a value that may be absent
Get(v, default) == IF v.t = "absent" THEN default ELSE v

\* Python truthiness
Truthy(v) ==
    CASE v.t = "str" -> v.s /= ""
      [] v.t = "int" -> v.n /= 0
      [] v.t = "bool" -> v.n = 1
      [] OTHER -> FALSE

\* str(v)
PyStr(v) ==
    CASE v.t = "str" -> v.s
      [] v.t = "int" -> IntToStr(v.n)
      [] v.t = "bool" -> (IF v.n = 1 THEN "True" ELSE "False")
      [] OTHER -> "None"

-----------------------------------------------------------------------------
(* Upstream response bodies.                                               *)

\* the keys of the upstream mappings the adapter reads
Keys == {"outputAmount", "estimatedGas", "value", "calldata", "to",
         "status", "healthy", "error", "message"}

\* the order the keys are printed in by repr(dict)
KeySeq == <<"outputAmount", "estimatedGas", "value", "calldata", "to",
            "status", "healthy", "error", "message">>

NoRoute == [t |-> "absent", steps |-> <<>>]

\* {} : the empty mapping
EmptyDict ==
    [raw |-> "dict", f |-> [k \in Keys |-> Absent], route |-> NoRoute, source |-> FALSE]

\* a body that is b"" , not JSON, or a JSON list
RawBody(kind) == [EmptyDict EXCEPT !.raw = kind]

RECURSIVE FieldsRepr(_, _)
\* the text of the fields of a mapping as repr() prints them, key i onwards
FieldsRepr(body, i) ==
    IF i > Len(KeySeq) THEN ""
    ELSE (IF body.f[KeySeq[i]].t = "absent" THEN ""
          ELSE KeySeq[i] \o ": " \o PyStr(body.f[KeySeq[i]]) \o ", ")
         \o FieldsRepr(body, i + 1)

-----------------------------------------------------------------------------
(* Exceptions.                                                             *)

NoUrl == [base |-> "", path |-> ""]

\* a Python exception: its class and message text; for ClientResponseError
\* the status and the body in message[0] (its text is ExcStr); for the
\* provider errors the provider name, url and the keys of the context passed
\* to the constructor
PyExc(cls, msg) ==
    [cls |-> cls, msg |-> msg, status |-> 0, body |-> EmptyDict,
     provider |-> "", url |-> NoUrl, ctx |-> {}]

NoExc == PyExc("", "")

\* str(ClientResponseError): "<status>, message=<repr(message)>, url=..."
ClientResponseErrorStr(status, body) ==
    IntToStr(status) \o ", message=[{" \o FieldsRepr(body, 1) \o "}]"

\* str(exception)
ExcStr(e) ==
    IF e.cls = "ClientResponseError" THEN ClientResponseErrorStr(e.status, e.body)
    ELSE e.msg

-----------------------------------------------------------------------------
(* Chain-to-endpoint resolver.                                             *)

SupportedChains == {8453, 534352, 999}

CHAIN_ID_TO_API_BASE(chain_id) ==
    CASE chain_id = 8453 -> "base"
      [] chain_id = 534352 -> "scroll"
      [] chain_id = 999 -> "hyperevm"
      [] OTHER -> ""

FIBROUS_API_BASE == "https://api.fibrous.finance/base"

FIBROUS_API_SCROLL == "https://api.fibrous.finance/scroll"

FIBROUS_API_HYPEREVM == "https://api.fibrous.finance/hyperevm"

UnsupportedChainExc == PyExc("ValueError", "Fibrous does not support chain_id")

\* mutant of _get_api_base_url: unknown chains fall back to the Base URL
ResolveWithDefault(chain_id) ==
    CASE chain_id = 534352 -> [ok |-> TRUE, url |-> FIBROUS_API_SCROLL, exc |-> NoExc]
      [] chain_id = 999 -> [ok |-> TRUE, url |-> FIBROUS_API_HYPEREVM, exc |-> NoExc]
      [] OTHER -> [ok |-> TRUE, url |-> FIBROUS_API_BASE, exc |-> NoExc]

\* _get_api_base_url: the base URL, or the exception it raises
_get_api_base_url(chain_id) ==
    IF CHAIN_ID_TO_API_BASE(chain_id) = ""
    THEN [ok |-> FALSE, url |-> "", exc |-> UnsupportedChainExc]
    ELSE CASE chain_id = 8453 -> [ok |-> TRUE, url |-> FIBROUS_API_BASE, exc |-> NoExc]
           [] chain_id = 534352 -> [ok |-> TRUE, url |-> FIBROUS_API_SCROLL, exc |-> NoExc]
           [] chain_id = 999 -> [ok |-> TRUE, url |-> FIBROUS_API_HYPEREVM, exc |-> NoExc]
           [] OTHER -> [ok |-> FALSE, url |-> "", exc |-> UnsupportedChainExc]

-----------------------------------------------------------------------------
(* Request executor.                                                       *)

\* ClientResponse.raise_for_status(): raises for a status of 400 and above
RaisesForStatus(status) == status >= 400

\* mutant of NormalizeStatus: the upstream status is passed on unchanged
KeepStatus(status) == status

\* status = 500 if e.status not in range(100, 600) else e.status
NormalizeStatus(status) == IF status \notin 100..599 THEN 500 ELSE status

\* data['source'] = 'proxied Fibrous API'
TagSource(body) == [body EXCEPT !.source = TRUE]

\* _make_request: what the call returns or raises for an upstream outcome
\* up = [transport, status, body]
_make_request(up) ==
    IF up.transport /= "ok"
    THEN [kind |-> "raise", data |-> EmptyDict, exc |-> PyExc(up.transport, "")]
    ELSE IF up.body.raw = "empty"
    THEN [kind |-> "return", data |-> EmptyDict, exc |-> NoExc]
    ELSE IF up.body.raw = "garbage"
    THEN [kind |-> "raise", data |-> EmptyDict,
          exc |-> PyExc("ValueError", "Expected object or value")]
    ELSE IF RaisesForStatus(up.status)
    THEN IF up.body.raw = "list"
         THEN [kind |-> "raise", data |-> EmptyDict,
               exc |-> PyExc("TypeError", "list indices must be integers or slices, not str")]
         ELSE [kind |-> "raise", data |-> EmptyDict,
               exc |-> [PyExc("ClientResponseError", "")
                        EXCEPT !.status = NormalizeStatus(up.status),
                               !.body = TagSource(up.body)]]
    ELSE [kind |-> "return", data |-> up.body, exc |-> NoExc]

-----------------------------------------------------------------------------
(* Exception classifier.                                                   *)

PROVIDER_NAME == "fibrous"

\* the pattern table, in the order the dict literal lists it
FIBROUS_ERRORS ==
    << [pattern |-> "insufficient liquidity", cls |-> "InsufficientLiquidityError"],
       [pattern |-> "insufficient balance", cls |-> "InsufficientLiquidityError"],
       [pattern |-> "cannot estimate", cls |-> "EstimationError"],
       [pattern |-> "no route found", cls |-> "InsufficientLiquidityError"] >>

RECURSIVE ScanLast(_, _)
\* the table scanned from its end: the last matching entry decides
ScanLast(lowered, i) ==
    IF i < 1 THEN "AggregationProviderError"
    ELSE IF Contains(Lower(FIBROUS_ERRORS[i].pattern), lowered)
    THEN FIBROUS_ERRORS[i].cls
    ELSE ScanLast(lowered, i - 1)

\* mutant of ErrorClassFor: the loop has no break, the last match wins
ErrorClassLastMatch(msg) == ScanLast(Lower(msg), Len(FIBROUS_ERRORS))

RECURSIVE ScanFrom(_, _)
\* the for loop over FIBROUS_ERRORS.items() from entry i: the first entry
\* whose lowered pattern occurs in the lowered message, then break
ScanFrom(lowered, i) ==
    IF i > Len(FIBROUS_ERRORS) THEN "AggregationProviderError"
    ELSE IF Contains(Lower(FIBROUS_ERRORS[i].pattern), lowered)
    THEN FIBROUS_ERRORS[i].cls
    ELSE ScanFrom(lowered, i + 1)

\* error_class after the loop
ErrorClassFor(msg) == ScanFrom(Lower(msg), 1)

\* the error classes of meta_aggregation_api.utils.errors
ProviderErrorClasses ==
    {"BaseAggregationProviderError", "AggregationProviderError",
     "InsufficientLiquidityError", "EstimationError"}

\* super().handle_exception(exception, **kwargs): a classified error when
\* the shared classifier recognises the condition (recognised), else None
BaseHandleException(e, ctx, url, recognised) ==
    IF recognised
    THEN [some |-> TRUE,
          exc |-> [PyExc("BaseAggregationProviderError", ExcStr(e))
                   EXCEPT !.provider = PROVIDER_NAME, !.url = url, !.ctx = ctx]]
    ELSE [some |-> FALSE, exc |-> NoExc]

\* msg: str(exception), or for a ClientResponseError carrying [dict] the
\* dict's 'error', then its 'message', then str(exception)
ExtractMessage(e) ==
    IF e.cls = "ClientResponseError"
    THEN Get(e.body.f["error"], Get(e.body.f["message"], Str(ExcStr(e))))
    ELSE Str(ExcStr(e))

\* handle_exception(exception, **kwargs).  ctx is the set of keyword names,
\* url the value of kwargs['url'] when "url" is among them.  The result is
\* the error it returns, or the exception it raises itself.
handle_exception(e, ctx, url, recognised) ==
    LET base == BaseHandleException(e, ctx, url, recognised)
        msg == ExtractMessage(e)
    IN IF base.some
       THEN [kind |-> "return", exc |-> base.exc, log |-> "error"]
       ELSE IF msg.t /= "str"
       THEN [kind |-> "raise", log |-> "none",
             exc |-> PyExc("AttributeError", "object has no attribute 'lower'")]
       ELSE IF "url" \in ctx
       THEN [kind |-> "raise", log |-> "none",
             exc |-> PyExc("TypeError", "got multiple values for keyword argument 'url'")]
       ELSE [kind |-> "return", log |-> "warning",
             exc |-> [PyExc(ErrorClassFor(msg.s), msg.s)
                      EXCEPT !.provider = PROVIDER_NAME, !.url = NoUrl, !.ctx = ctx]]

-----------------------------------------------------------------------------
(* Canonical responses.                                                    *)

NoResp ==
    [provider |-> "", sources |-> <<>>, buy_amount |-> "", gas |-> "",
     sell_amount |-> "", gas_price |-> "", value |-> "", price |-> "",
     to |-> "", data |-> ""]

\* what a call hands to its caller: kind "return" with resp (price, quote),
\* ret (health_check) or data (_make_request), or kind "raise" with exc;
\* resolved and requests count the endpoint resolutions and outbound requests
\* of the call and endpoint is the URL the request went to; classified is the
\* set of context keys given to the classifier ({} when it was not called)
\* and log the severity that was logged at
Outcome(kind, exc, resp, ret, resolved, requests, classified, log) ==
    [kind |-> kind, exc |-> exc, resp |-> resp, ret |-> ret, data |-> EmptyDict,
     resolved |-> resolved, requests |-> requests, endpoint |-> NoUrl,
     classified |-> classified, log |-> log]

\* the outcome of a call whose request went to url
Sent(outcome, url) == [outcome EXCEPT !.endpoint = url]

NoOutcome == Outcome("none", NoExc, NoResp, Null, 0, 0, {}, "none")

Raise(exc, resolved, requests, classified, log) ==
    Outcome("raise", exc, NoResp, Null, resolved, requests, classified, log)

\* the native-token sentinel of the configuration
NATIVE_TOKEN_ADDRESS == "0xeeeeeeeeeeeeeeeeeeeeeeeeeeeeeeeeeeeeeeee"

\* float(v): the number, or the exception float() raises
FloatOf(v) ==
    CASE v.t = "int" -> [ok |-> TRUE, n |-> v.n, exc |-> NoExc]
      [] v.t = "bool" -> [ok |-> TRUE, n |-> v.n, exc |-> NoExc]
      [] v.t = "str" /\ IsNumeric(v.s) -> [ok |-> TRUE, n |-> StrToInt(v.s), exc |-> NoExc]
      [] v.t = "str" ->
            [ok |-> FALSE, n |-> 0,
             exc |-> PyExc("ValueError", "could not convert string to float: " \o v.s)]
      [] OTHER ->
            [ok |-> FALSE, n |-> 0,
             exc |-> PyExc("TypeError", "float() argument must be a string or a number")]

\* price = buy_amount_float / sell_amount_float if sell_amount_float > 0 else 0
\* followed by str(price)
PriceStr(buy, sell) == IF sell > 0 THEN PyFloatDivStr(buy, sell) ELSE "0"

\* pydantic validation of SwapSources(name=..., proportion=...)
SwapSourcesValid(name, proportion) == name.t /= "null" /\ proportion.t /= "null"

\* pydantic validation of a required str field of the response models
StrFieldValid(v) == v.t /= "null"

RECURSIVE BuildSources(_, _)
\* the loop over route: the sources built from step i onwards, or the first
\* exception a step raises
BuildSources(steps, i) ==
    IF i > Len(steps) THEN [ok |-> TRUE, sources |-> <<>>, exc |-> NoExc]
    ELSE IF ~steps[i].map
    THEN [ok |-> FALSE, sources |-> <<>>,
          exc |-> PyExc("AttributeError", "'str' object has no attribute 'get'")]
    ELSE LET protocol == Get(steps[i].protocol, Str("Unknown"))
             percent == Get(steps[i].percent, Num(100))
             rest == BuildSources(steps, i + 1)
         IN IF ~SwapSourcesValid(protocol, percent)
            THEN [ok |-> FALSE, sources |-> <<>>,
                  exc |-> PyExc("ValidationError", "validation error for SwapSources")]
            ELSE IF ~rest.ok THEN rest
            ELSE [ok |-> TRUE, exc |-> NoExc,
                  sources |-> <<[name |-> protocol, proportion |-> percent]>> \o rest.sources]

-----------------------------------------------------------------------------
(* The adapter's operations.                                               *)

\* except (ClientResponseError, asyncio.TimeoutError, ServerDisconnectedError)
CaughtTransport == {"ClientResponseError", "TimeoutError", "ServerDisconnectedError"}

\* except (KeyError, ValidationError, ValueError)
CaughtTransform == {"KeyError", "ValidationError", "ValueError"}

\* exc = self.handle_exception(e, **kwargs); raise exc
ClassifyAndRaise(e, ctx, url, recognised, resolved, requests) ==
    LET h == handle_exception(e, ctx, url, recognised)
    IN Raise(h.exc, resolved, requests, ctx, h.log)

\* mutant of NativeValue: the token address is compared as given
NativeValueCaseSensitive(sell_token, sell_amount) ==
    IF sell_token = NATIVE_TOKEN_ADDRESS THEN IntToStr(sell_amount) ELSE "0"

\* value = '0'; if sell_token.lower() == NATIVE_TOKEN_ADDRESS: value = str(sell_amount)
NativeValue(sell_token, sell_amount) ==
    IF Lower(sell_token) = NATIVE_TOKEN_ADDRESS THEN IntToStr(sell_amount) ELSE "0"

\* str(gas_price) if gas_price else '0'
GasPriceStr(gas_price) == IF Truthy(gas_price) THEN PyStr(gas_price) ELSE "0"

\* the second try block of get_swap_price
TransformPrice(a, response, url, recognised) ==
    LET output_amount == Get(response.f["outputAmount"], Str("0"))
        estimated_gas == Get(response.f["estimatedGas"], Str("0"))
        buy == FloatOf(output_amount)
        built == BuildSources(response.route.steps, 1)
        failure == IF response.raw /= "dict"
                   THEN PyExc("AttributeError", "'list' object has no attribute 'get'")
                   ELSE IF ~buy.ok THEN buy.exc
                   ELSE IF ~built.ok THEN built.exc
                   ELSE NoExc
    IN IF failure.cls = ""
       THEN Outcome("return", NoExc,
                    [NoResp EXCEPT !.provider = PROVIDER_NAME,
                                   !.sources = built.sources,
                                   !.buy_amount = PyStr(output_amount),
                                   !.gas = PyStr(estimated_gas),
                                   !.sell_amount = IntToStr(a.sell_amount),
                                   !.gas_price = GasPriceStr(a.gas_price),
                                   !.value = NativeValue(a.sell_token, a.sell_amount),
                                   !.price = PriceStr(buy.n, a.sell_amount)],
                    Null, 1, 1, {}, "none")
       ELSE IF failure.cls \in CaughtTransform
       THEN ClassifyAndRaise(failure, {"response", "method", "url", "params", "chain_id"},
                             url, recognised, 1, 1)
       ELSE Raise(failure, 1, 1, {}, "none")

\* get_swap_price
get_swap_price(a, up, recognised) ==
    LET api == _get_api_base_url(a.chain_id)
        url == [base |-> api.url, path |-> "route"]
        rq == _make_request(up)
    IN IF ~api.ok THEN Raise(api.exc, 1, 0, {}, "none")
       ELSE IF rq.kind = "raise"
       THEN IF rq.exc.cls \in CaughtTransport
            THEN Sent(ClassifyAndRaise(rq.exc, {"params", "token_address", "chain_id"},
                                       NoUrl, recognised, 1, 1), url)
            ELSE Sent(Raise(rq.exc, 1, 1, {}, "none"), url)
       ELSE Sent(TransformPrice(a, rq.data, url, recognised), url)

\* the second try block of get_swap_quote
TransformQuote(a, response, url, recognised) ==
    LET calldata == Get(response.f["calldata"], Str("0x"))
        to_address == Get(response.f["to"], Str(""))
        value == Get(response.f["value"], Str("0"))
        output_amount == Get(response.f["outputAmount"], Str("0"))
        estimated_gas == Get(response.f["estimatedGas"], Str("0"))
        buy == FloatOf(output_amount)
        built == BuildSources(response.route.steps, 1)
        failure == IF response.raw /= "dict"
                   THEN PyExc("AttributeError", "'list' object has no attribute 'get'")
                   ELSE IF ~buy.ok THEN buy.exc
                   ELSE IF ~built.ok THEN built.exc
                   ELSE IF ~(StrFieldValid(to_address) /\ StrFieldValid(calldata))
                   THEN PyExc("ValidationError", "validation error for ProviderQuoteResponse")
                   ELSE NoExc
    IN IF failure.cls = ""
       THEN Outcome("return", NoExc,
                    [NoResp EXCEPT !.sources = built.sources,
                                   !.buy_amount = PyStr(output_amount),
                                   !.gas = PyStr(estimated_gas),
                                   !.sell_amount = IntToStr(a.sell_amount),
                                   !.to = PyStr(to_address),
                                   !.data = PyStr(calldata),
                                   !.gas_price = GasPriceStr(a.gas_price),
                                   !.value = PyStr(value),
                                   !.price = PriceStr(buy.n, a.sell_amount)],
                    Null, 1, 1, {}, "none")
       ELSE IF failure.cls \in CaughtTransform
       THEN ClassifyAndRaise(failure, {"response", "method", "url", "params", "chain_id"},
                             url, recognised, 1, 1)
       ELSE Raise(failure, 1, 1, {}, "none")

\* the part of get_swap_quote after the taker_address check
QuoteAfterCheck(a, up, recognised) ==
    LET api == _get_api_base_url(a.chain_id)
        url == [base |-> api.url, path |-> "calldata"]
        rq == _make_request(up)
    IN IF ~api.ok THEN Raise(api.exc, 1, 0, {}, "none")
       ELSE IF rq.kind = "raise"
       THEN IF rq.exc.cls \in CaughtTransport
            THEN Sent(ClassifyAndRaise(rq.exc, {"params", "token_address", "chain_id", "wallet"},
                                       NoUrl, recognised, 1, 1), url)
            ELSE Sent(Raise(rq.exc, 1, 1, {}, "none"), url)
       ELSE Sent(TransformQuote(a, rq.data, url, recognised), url)

MissingTakerExc == PyExc("ValueError", "taker_address is required for Fibrous quote")

\* mutant of get_swap_quote: the taker_address check runs after the request
QuoteCheckAfterRequest(a, up, recognised) ==
    IF a.taker_address = ""
    THEN Raise(MissingTakerExc, 1, IF _get_api_base_url(a.chain_id).ok THEN 1 ELSE 0,
               {}, "none")
    ELSE QuoteAfterCheck(a, up, recognised)

\* get_swap_quote; taker_address "" stands for None and for ''
get_swap_quote(a, up, recognised) ==
    IF a.taker_address = ""
    THEN Raise(MissingTakerExc, 0, 0, {}, "none")
    ELSE QuoteAfterCheck(a, up, recognised)

\* health_check: everything raised inside the try block becomes False
health_check(a, up) ==
    LET api == _get_api_base_url(a.chain_id)
        url == [base |-> api.url, path |-> "healthCheck"]
        rq == _make_request(up)
        status == Get(rq.data.f["status"], Str(""))
    IN IF ~api.ok THEN Outcome("return", NoExc, NoResp, Bool(FALSE), 1, 0, {}, "error")
       ELSE IF rq.kind = "raise" \/ rq.data.raw /= "dict" \/ status.t /= "str"
       THEN Sent(Outcome("return", NoExc, NoResp, Bool(FALSE), 1, 1, {}, "error"), url)
       ELSE Sent(Outcome("return", NoExc, NoResp,
                         IF Lower(status.s) = "ok" THEN Bool(TRUE)
                         ELSE Get(rq.data.f["healthy"], Bool(FALSE)),
                         1, 1, {}, "none"), url)

-----------------------------------------------------------------------------
(* Inputs: the arguments callers pass and what the upstream answers.       *)

Chains == SupportedChains \cup {1}

Tokens == {NATIVE_TOKEN_ADDRESS,
           "0xEeeeeEeeeEeEeeEeEeEeeEEEeeeeEeeeeeeeEEeE",
           "0xA0b86991c6218b36c1d19D4a2e9Eb0cE3606eB48"}

Amounts == {0, 4, 1000000}

GasPrices == {Null, Num(5)}

Takers == {"", "0x1111111111111111111111111111111111111111"}

NoArgs ==
    [buy_token |-> "", sell_token |-> "", sell_amount |-> 0, chain_id |-> 0,
     taker_address |-> "", gas_price |-> Null]

\* the statuses upstream answers the adapter's calls with
Statuses == {200, 404, 500, 700}

\* the statuses the request executor is exercised with
ExecutorStatuses == Statuses \cup {-1, 0, 99, 100, 302, 599, 600}

Transports == {"TimeoutError", "ServerDisconnectedError", "ClientConnectorError"}

GoodStep == [map |-> TRUE, protocol |-> Str("UniV3"), percent |-> Num(100)]

BareStep == [map |-> TRUE, protocol |-> Absent, percent |-> Absent]

Steps == {GoodStep,
          [map |-> TRUE, protocol |-> Null, percent |-> Num(50)],
          [map |-> FALSE, protocol |-> Absent, percent |-> Absent]}

Routes == UNION {[1..n -> Steps] : n \in 0..MaxRoute}

\* a mapping with the given fields
Dict(fields) ==
    [EmptyDict EXCEPT !.f = [k \in Keys |-> IF k \in DOMAIN fields THEN fields[k] ELSE Absent]]

WithRoute(body, steps) == [body EXCEPT !.route = [t |-> "list", steps |-> steps]]

PriceBody == Dict([outputAmount |-> Str("2000000"), estimatedGas |-> Str("150000")])

QuoteBody ==
    Dict([outputAmount |-> Str("3000000"), estimatedGas |-> Num(150000),
          calldata |-> Str("0xdeadbeef"), to |-> Str("0x2222222222222222222222222222222222222222"),
          value |-> Str("77")])

HealthBodies ==
    {Dict([status |-> Str("OK")]), Dict([status |-> Str("ok")]),
     Dict([status |-> Str("down")]), Dict([healthy |-> Bool(TRUE)]),
     Dict([healthy |-> Bool(FALSE)]), Dict([healthy |-> Str("yes")]),
     Dict([status |-> Num(503), healthy |-> Bool(TRUE)]),
     Dict([status |-> Str("down"), healthy |-> Bool(TRUE)])}

ErrorBodies ==
    {Dict([error |-> Str("Insufficient Liquidity")]),
     Dict([message |-> Str("Cannot Estimate gas")]),
     Dict([error |-> Str("No Route Found; Cannot Estimate")]),
     Dict([error |-> Str("rate limited"), message |-> Str("no route found")]),
     Dict([error |-> Null])}

Bodies ==
    {WithRoute(PriceBody, r) : r \in Routes}
    \cup {RawBody("empty"), RawBody("garbage"), RawBody("list")}
    \cup {Dict([outputAmount |-> Str("abc")]), Dict([outputAmount |-> Null]),
          Dict([outputAmount |-> Num(1500000)]),
          WithRoute(Dict([outputAmount |-> Str("3000000")]), <<BareStep>>),
          QuoteBody, [QuoteBody EXCEPT !.f["to"] = Null]}
    \cup HealthBodies \cup ErrorBodies

NoUpstream == [transport |-> "none", status |-> 0, body |-> EmptyDict]

TransportFailures ==
    {[transport |-> t, status |-> 0, body |-> EmptyDict] : t \in Transports}

Upstreams ==
    TransportFailures
    \cup {[transport |-> "ok", status |-> st, body |-> b] : st \in Statuses, b \in Bodies}

ExecutorUpstreams ==
    TransportFailures
    \cup {[transport |-> "ok", status |-> st, body |-> b] :
             st \in ExecutorStatuses, b \in Bodies}

Fragments ==
    {"Insufficient Liquidity", "INSUFFICIENT BALANCE", "Cannot Estimate",
     "no route found", "rate limited", "insufficient ", "LIQUIDITY", "; "}

RECURSIVE Join(_, _)
Join(frags, i) == IF i > Len(frags) THEN "" ELSE frags[i] \o Join(frags, i + 1)

Messages == {Join(fs, 1) : fs \in UNION {[1..n -> Fragments] : n \in 0..MaxFrags}}

-----------------------------------------------------------------------------
(* The state machine.                                                      *)

Init ==
    /\ op = "idle"
    /\ args = NoArgs
    /\ upstream = NoUpstream
    /\ result = NoOutcome

\* a caller invokes get_swap_price
CallGetSwapPrice ==
    /\ op = "idle"
    /\ \E chain \in Chains, token \in Tokens, amount \in Amounts,
          gas \in GasPrices, up \in Upstreams, recognised \in BOOLEAN :
          LET a == [NoArgs EXCEPT !.buy_token = "0xA0b86991c6218b36c1d19D4a2e9Eb0cE3606eB48",
                                  !.sell_token = token, !.sell_amount = amount,
                                  !.chain_id = chain, !.gas_price = gas]
          IN /\ op' = "get_swap_price"
             /\ args' = a
             /\ upstream' = up
             /\ result' = get_swap_price(a, up, recognised)

\* a caller invokes get_swap_quote
CallGetSwapQuote ==
    /\ op = "idle"
    /\ \E chain \in Chains, token \in Tokens, amount \in Amounts, taker \in Takers,
          gas \in GasPrices, up \in Upstreams, recognised \in BOOLEAN :
          LET a == [NoArgs EXCEPT !.buy_token = "0xA0b86991c6218b36c1d19D4a2e9Eb0cE3606eB48",
                                  !.sell_token = token, !.sell_amount = amount,
                                  !.chain_id = chain, !.taker_address = taker,
                                  !.gas_price = gas]
          IN /\ op' = "get_swap_quote"
             /\ args' = a
             /\ upstream' = up
             /\ result' = get_swap_quote(a, up, recognised)

\* a caller invokes health_check
CallHealthCheck ==
    /\ op = "idle"
    /\ \E chain \in Chains \cup {0}, up \in Upstreams :
          LET a == [NoArgs EXCEPT !.chain_id = chain]
          IN /\ op' = "health_check"
             /\ args' = a
             /\ upstream' = up
             /\ result' = health_check(a, up)

\* the classifier is applied to the HTTP-status failure the request executor
\* raises for an upstream error body carrying msg
Classify ==
    /\ op = "idle"
    /\ \E msg \in Messages, key \in {"error", "message"}, st \in {404, 700},
          recognised \in BOOLEAN :
          LET up == [transport |-> "ok", status |-> st,
                     body |-> [EmptyDict EXCEPT !.f[key] = Str(msg)]]
          IN /\ op' = "handle_exception"
             /\ args' = NoArgs
             /\ upstream' = up
             /\ result' = ClassifyAndRaise(_make_request(up).exc,
                                           {"params", "token_address", "chain_id"},
                                           NoUrl, recognised, 0, 1)

\* the request executor is invoked for an upstream outcome
CallMakeRequest ==
    /\ op = "idle"
    /\ \E up \in ExecutorUpstreams :
          LET rq == _make_request(up)
          IN /\ op' = "_make_request"
             /\ args' = NoArgs
             /\ upstream' = up
             /\ result' = [Outcome(rq.kind, rq.exc, NoResp, Null, 0, 1, {}, "none")
                           EXCEPT !.data = rq.data]

\* the caller has taken the result; the adapter keeps nothing of the call
Done ==
    /\ op /= "idle"
    /\ op' = "idle"
    /\ args' = NoArgs
    /\ upstream' = NoUpstream
    /\ result' = NoOutcome

Next ==
    CallGetSwapPrice \/ CallGetSwapQuote \/ CallHealthCheck \/ CallMakeRequest \/ Done

Spec == Init /\ [][Next]_vars

NextClassify == Classify \/ Done

SpecClassify == Init /\ [][NextClassify]_vars

-----------------------------------------------------------------------------
(* Properties.                                                             *)

IsSwap == op \in {"get_swap_price", "get_swap_quote"}

\* the call got past the taker_address precondition
PastTakerCheck == op = "get_swap_price" \/ args.taker_address /= ""

\* resolving the endpoint or performing the request fails in one of the
\* ways the error taxonomy lists
RequestFails ==
    \/ args.chain_id \notin SupportedChains
    \/ upstream.transport \in {"TimeoutError", "ServerDisconnectedError"}
    \/ /\ upstream.transport = "ok"
       /\ upstream.status \notin 200..299 \/ upstream.body.raw = "garbage"

\* C1: in get_swap_price and get_swap_quote every failure of the endpoint
\* resolution or of the outbound request (unsupported chain, timeout,
\* connection drop, non-2xx status, unparseable body) that reaches the caller
\* is one of the provider error kinds, never a raw exception.
C1_RawNeverCrosses ==
    (IsSwap /\ PastTakerCheck /\ RequestFails /\ result.kind = "raise")
        => result.exc.cls \in ProviderErrorClasses

\* the request returned a mapping that the transformation cannot turn into a
\* response: outputAmount is null or not numeric, or a route step is not a
\* mapping or does not validate
StructuralFailure ==
    /\ args.chain_id \in SupportedChains
    /\ upstream.transport = "ok"
    /\ upstream.status \in 200..299
    /\ upstream.body.raw = "dict"
    /\ \/ upstream.body.f["outputAmount"].t = "null"
       \/ upstream.body.f["outputAmount"].t = "str"
            /\ ~IsNumeric(upstream.body.f["outputAmount"].s)
       \/ \E i \in 1..Len(upstream.body.route.steps) :
            \/ ~upstream.body.route.steps[i].map
            \/ upstream.body.route.steps[i].protocol.t = "null"

TransformContext == {"response", "method", "url", "params", "chain_id"}

\* C2: every structural failure while building the response of
\* get_swap_price or get_swap_quote goes through the classifier with the
\* context {response, method, url, params, chain_id}, and the caller receives
\* the resulting error record (provider name, that url, the context), also
\* when the shared classifier produced nothing.
C2_TransformFailuresClassified ==
    (IsSwap /\ PastTakerCheck /\ StructuralFailure)
        => /\ result.kind = "raise"
           /\ result.classified = TransformContext
           /\ result.exc.cls \in ProviderErrorClasses
           /\ result.exc.provider = PROVIDER_NAME
           /\ result.exc.ctx = TransformContext

C4_MissingTakerRejectedFirst ==
    (op = "get_swap_quote" /\ args.taker_address = "")
        => /\ result.kind = "raise"
           /\ result.exc.cls = "ValueError"
           /\ result.exc.cls \notin ProviderErrorClasses
           /\ result.resolved = 0
           /\ result.requests = 0
           /\ result.endpoint = NoUrl
           /\ result.classified = {}

C4_Witness ==
    /\ op = "get_swap_quote"
    /\ args.taker_address = ""
    /\ args.chain_id \in SupportedChains
    /\ upstream.transport = "ok"
    /\ upstream.status = 200
    /\ result.kind = "raise"
    /\ result.requests = 0

\* the health request came back as a parsed mapping
HealthBodyParsed ==
    /\ args.chain_id \in SupportedChains
    /\ upstream.transport = "ok"
    /\ upstream.status \in 200..299
    /\ upstream.body.raw = "dict"

\* C5: health_check never raises and always returns a boolean: False for an
\* unsupported chain, a transport failure, a non-2xx status, an unparseable
\* or non-mapping body, or a body without status whose healthy is false or
\* absent; True when the body's status is "ok" in any casing or its healthy
\* field is truthy.
C5_HealthCheckBoolean ==
    op = "health_check"
        => /\ result.kind = "return"
           /\ result.ret \in {Bool(TRUE), Bool(FALSE)}
           /\ (\/ args.chain_id \notin SupportedChains
               \/ upstream.transport /= "ok"
               \/ upstream.status \notin 200..299
               \/ upstream.body.raw \in {"garbage", "list"}
               \/ /\ upstream.body.f["status"].t = "absent"
                  /\ upstream.body.f["healthy"] \in {Absent, Bool(FALSE)})
                => result.ret = Bool(FALSE)
           /\ (HealthBodyParsed
                 /\ \/ /\ upstream.body.f["status"].t = "str"
                       /\ Lower(upstream.body.f["status"].s) = "ok"
                    \/ Truthy(upstream.body.f["healthy"]))
                => result.ret = Bool(TRUE)

\* the provider-specific step of the classifier produced the error
ProviderClassified == result.kind = "raise" /\ result.log = "warning"

\* C6: when the shared classifier produces nothing, the kind is that of the
\* first pattern in table order (insufficient liquidity, insufficient
\* balance, cannot estimate, no route found) that occurs in the message,
\* compared without regard to case, also when later patterns occur too; a
\* message with none of them gives the generic AggregationProviderError.
C6_FirstPatternWins ==
    (op = "handle_exception" /\ ProviderClassified)
        => LET m == Lower(result.exc.msg)
               liq == Contains("insufficient liquidity", m)
               bal == Contains("insufficient balance", m)
               est == Contains("cannot estimate", m)
               nrf == Contains("no route found", m)
           IN /\ (liq \/ bal) => result.exc.cls = "InsufficientLiquidityError"
              /\ (~liq /\ ~bal /\ est) => result.exc.cls = "EstimationError"
              /\ (~liq /\ ~bal /\ ~est /\ nrf)
                    => result.exc.cls = "InsufficientLiquidityError"
              /\ (~liq /\ ~bal /\ ~est /\ ~nrf)
                    => result.exc.cls = "AggregationProviderError"

C6_Witness ==
    /\ op = "handle_exception"
    /\ ProviderClassified
    /\ result.exc.msg = "no route foundCannot Estimate"
    /\ result.exc.cls = "EstimationError"

IsNative == Lower(args.sell_token) = NATIVE_TOKEN_ADDRESS

\* C7 (as stated): in the response of get_swap_price and of get_swap_quote,
\* value is sell_amount exactly when sell_token is the native sentinel in any
\* casing, and "0" otherwise.
C7_ValueIffNative ==
    (IsSwap /\ result.kind = "return")
        => result.resp.value = (IF IsNative THEN IntToStr(args.sell_amount) ELSE "0")

\* C7 (amended): in the response of get_swap_price, value is sell_amount when
\* sell_token is the native sentinel in any casing and "0" otherwise,
\* whatever the upstream body holds; in the response of get_swap_quote,
\* value is the text of the upstream body's value field, "0" when the body
\* has none.
C7_ValueAmended ==
    /\ (op = "get_swap_price" /\ result.kind = "return")
        => result.resp.value = (IF IsNative THEN IntToStr(args.sell_amount) ELSE "0")
    /\ (op = "get_swap_quote" /\ result.kind = "return")
        => result.resp.value = PyStr(Get(upstream.body.f["value"], Str("0")))

C7_Witness ==
    /\ op = "get_swap_price"
    /\ result.kind = "return"
    /\ args.sell_token = "0xEeeeeEeeeEeEeeEeEeEeeEEEeeeeEeeeeeeeEEeE"
    /\ args.sell_amount = 1000000
    /\ result.resp.value = "1000000"

\* the decimal numeral of num/den when the quotient is an integer
ExactQuotient(num, den) == IntToStr(num \div den)

\* C8: for sell_amount > 0 the price is the exact decimal quotient
\* outputAmount / sell_amount and for sell_amount = 0 it is "0"; sell_amount
\* 1000000 with outputAmount "2000000" gives buy_amount "2000000" and price
\* "2".
C8_ExactDecimalPrice ==
    (IsSwap /\ result.kind = "return")
        => LET out == FloatOf(Get(upstream.body.f["outputAmount"], Str("0"))).n
           IN /\ args.sell_amount = 0 => result.resp.price = "0"
              /\ (args.sell_amount > 0 /\ out % args.sell_amount = 0)
                    => result.resp.price = ExactQuotient(out, args.sell_amount)
              /\ (args.sell_amount = 1000000
                    /\ upstream.body.f["outputAmount"] = Str("2000000"))
                    => result.resp.buy_amount = "2000000" /\ result.resp.price = "2"

\* C9: every HTTP-status failure the request executor raises carries a status
\* in 100..599: an upstream status in that range unchanged, any other
\* replaced by 500; and it carries the parsed body with the source tag.
C9_StatusNormalized ==
    (op = "_make_request" /\ result.kind = "raise"
        /\ result.exc.cls = "ClientResponseError")
        => /\ result.exc.status \in 100..599
           /\ upstream.status \in 100..599 => result.exc.status = upstream.status
           /\ upstream.status \notin 100..599 => result.exc.status = 500
           /\ result.exc.body.source
           /\ result.exc.body = [upstream.body EXCEPT !.source = TRUE]

C9_Witness ==
    /\ op = "_make_request"
    /\ upstream.status = 700
    /\ result.kind = "raise"
    /\ result.exc.cls = "ClientResponseError"
    /\ result.exc.status = 500

\* C10: an upstream status outside 200..299 never gives a successful result,
\* whatever the body (an empty one included): the request executor raises an
\* HTTP-status failure, get_swap_price and get_swap_quote return no response
\* and health_check returns False.
C10_Non2xxNeverSucceeds ==
    (upstream.transport = "ok" /\ upstream.status \notin 200..299)
        => /\ op = "_make_request"
                => result.kind = "raise" /\ result.exc.cls = "ClientResponseError"
           /\ IsSwap => result.kind /= "return"
           /\ op = "health_check" => result.ret = Bool(FALSE)

=============================================================================
